---- MODULE Spec2Model ----
(***************************************************************************)
(* The Agents API of agentlify-js: Agents.run(), the tool execution loop,  *)
(* Agents.execute(), the single round trip, the callback registry          *)
(* (_extractToolCallbacks) and the tool resolver (_executeToolCallbacks).  *)
(*                                                                         *)
(* JavaScript values are tagged records [t |-> <typeof / kind>, ...];      *)
(* JavaScript objects whose set of properties matters (tool definitions,   *)
(* responses, messages, request payloads) are records whose DOMAIN is the  *)
(* set of own properties, so that "has no callback field" is               *)
(* "callback" \notin DOMAIN tool.                                          *)
(***************************************************************************)
EXTENDS Integers, Sequences, FiniteSets, TLC

VARIABLES
    pc,               \* position of the one invocation: see PcValues
    method,           \* "none" | "run" | "execute"
    params,           \* the params object the caller passed
    callerTools,      \* the caller's tool list (params.tools) as the caller sees it
    callerMessages,   \* the caller's messages array (params.messages) as the caller sees it
    tools,            \* run(): the clean tool list  (line 260)
    toolCallbacks,    \* run(): the callback registry, a Map name -> callback (line 260)
    requestPayload,   \* the request payload object (lines 263, 346)
    maxIterations,    \* run(): line 270
    iteration,        \* run(): line 271
    currentMessages,  \* run(): line 272
    response,         \* run(): line 273, the last response received
    toolCalls,        \* run(): line 291, the pending tool calls
    results,          \* _executeToolCallbacks: line 386
    idx,              \* _executeToolCallbacks: position of the for-of loop (line 388)
    running,          \* indices of the tool calls whose callback is started and not settled
    requests,         \* history: the payloads handed to _executeAgent, in order
    invocations,      \* history: the callback invocations, in order
    server,           \* environment: which responses the agent endpoint gives this call
    outcome,          \* how the invocation ended: a returned response or a thrown error
    configured,       \* Agentlify: validatedConfig.maxRetries (index.js line 29)
    maxRetries,       \* Agentlify: this.maxRetries (index.js line 36)
    httpPc,           \* position of the one call of Agentlify.request()
    attempt,          \* request(): the loop variable of line 125
    lastError,        \* request(): line 122
    attempts,         \* history: how each HTTP attempt of the call ended, in order
    delays,           \* history: the backoff delays the call waited, in order
    requestOutcome,   \* how request() ended: the data returned or the error thrown
    other             \* the local state of a second, suspended invocation (see Switch)

agentVars == <<pc, method, params, callerTools, callerMessages, tools, toolCallbacks,
               requestPayload, maxIterations, iteration, currentMessages, response,
               toolCalls, results, idx, running, requests, invocations, server, outcome>>

transportVars == <<configured, maxRetries, httpPc, attempt, lastError, attempts, delays,
                   requestOutcome>>

vars == <<agentVars, transportVars, other>>

-----------------------------------------------------------------------------
(* Bounds of the model                                                     *)

\* the longest tool-call list of one response
MaxCalls == 2

\* the number of leading iterations of a run in which a "rich" server may
\* answer with any response of RichResponses (after them it only completes)
MaxRichIterations == 1

\* the longest tool list given to the callback registry in SpecExtract
MaxTools == 2

\* the largest iteration budget a caller passes as maxToolIterations
MaxBudget == 2

-----------------------------------------------------------------------------
(* JavaScript values                                                       *)

Undefined == [t |-> "undefined"]
Null == [t |-> "null"]
Str(s) == [t |-> "string", v |-> s]
Num(n) == [t |-> "number", v |-> n]
Bool(b) == [t |-> "boolean", v |-> b]
\* an array
Arr(items) == [t |-> "array", items |-> items]
\* a plain structured value; props is a sequence of <<key, value>> pairs
Obj(props) == [t |-> "object", props |-> props]
\* a function value; behaviour is what calling it does (see CallbackBehaviours)
Fn(id, behaviour) == [t |-> "function", id |-> id, behaviour |-> behaviour]
\* new Error(message)
ErrorObj(message) == [t |-> "Error", message |-> Str(message)]

\* ToBoolean, as used by !x, x||y and if(x)
Truthy(x) ==
    CASE x.t = "undefined" -> FALSE
      [] x.t = "null" -> FALSE
      [] x.t = "string" -> x.v # ""
      [] x.t = "number" -> x.v # 0
      [] x.t = "boolean" -> x.v
      [] OTHER -> TRUE

\* Array.isArray
IsArray(x) == x.t = "array"

\* typeof x === 'string'
IsString(x) == x.t = "string"

\* String(x) inside a template literal, for the values a tool name can take
TemplateText(x) ==
    CASE x.t = "string" -> x.v
      [] x.t = "undefined" -> "undefined"
      [] x.t = "null" -> "null"
      [] x.t = "number" -> ToString(x.v)
      [] OTHER -> "[object Object]"

\* obj?.[field] on a record-shaped object: the field when present, else nothing
Has(obj, field) == field \in DOMAIN obj

\* the object without one own property: const {callback, ...rest} = obj
Omit(obj, field) == [f \in DOMAIN obj \ {field} |-> obj[f]]

(* JSON.stringify on the values of the model. A property whose value is    *)
(* undefined is left out of an object; undefined itself has no JSON text   *)
(* and JSON.stringify returns undefined for it.                            *)
RECURSIVE JSONText(_), JSONProps(_, _)
JSONText(x) ==
    CASE x.t = "string" -> "\"" \o x.v \o "\""
      [] x.t = "number" -> ToString(x.v)
      [] x.t = "null" -> "null"
      [] x.t = "boolean" -> IF x.v THEN "true" ELSE "false"
      [] x.t = "array" -> "[]"
      [] x.t = "object" -> "{" \o JSONProps(x.props, TRUE) \o "}"
      [] OTHER -> "{}"

JSONProps(props, first) ==
    IF props = <<>> THEN ""
    ELSE LET p == Head(props)
         IN IF p[2].t \in {"undefined", "function"}
            THEN JSONProps(Tail(props), first)
            ELSE (IF first THEN "" ELSE ",") \o "\"" \o p[1] \o "\":" \o JSONText(p[2])
                 \o JSONProps(Tail(props), FALSE)

JSONStringify(x) ==
    IF x.t \in {"undefined", "function"} THEN Undefined ELSE Str(JSONText(x))

(* JSON.parse on the texts of the model: the inverse of JSONText on        *)
(* ParsableValues, a SyntaxError on every other text.                      *)
ParsableValues == {Obj(<<>>), Obj(<< <<"x", Num(1)>> >>)}

JSONParse(text) ==
    IF \E v \in ParsableValues : JSONText(v) = text
    THEN [ok |-> TRUE, value |-> CHOOSE v \in ParsableValues : JSONText(v) = text]
    ELSE [ok |-> FALSE, error |-> ErrorObj("Unexpected token in JSON")]

\* a Map: a function from the keys set so far
EmptyMap == [k \in {} |-> Undefined]
MapSet(m, key, value) == [k \in DOMAIN m \cup {key} |-> IF k = key THEN value ELSE m[k]]
\* Map.prototype.get with a key that is a string or undefined
MapGet(m, key) == IF key.t = "string" /\ key.v \in DOMAIN m THEN m[key.v] ELSE Undefined

-----------------------------------------------------------------------------
(* Callback registry: Agents._extractToolCallbacks                          *)

\* tool.function?.name
ToolFunctionName(tool) ==
    IF Has(tool, "function") /\ Has(tool.function, "name")
    THEN Str(tool.function.name) ELSE Undefined

\* const {callback, ...toolDef} = tool : the value bound to callback
CallbackOf(tool) == IF Has(tool, "callback") THEN tool.callback ELSE Undefined

\* mutant of CleanTool: the tool itself is pushed on cleanTools
CleanToolKeepsCallback(tool) == tool

\* ... and the value bound to toolDef, the element pushed on cleanTools
CleanTool(tool) == Omit(tool, "callback")

\* mutant of Register: a name that is registered keeps its first callback
RegisterFirstWins(registry, tool) ==
    LET callback == CallbackOf(tool)
        toolName == ToolFunctionName(tool)
    IN IF Truthy(callback) /\ callback.t = "function" /\ Truthy(toolName)
          /\ toolName.v \notin DOMAIN registry
       THEN MapSet(registry, toolName.v, callback)
       ELSE registry

\* lines 368-373: the registry after the loop body has seen tool
Register(registry, tool) ==
    LET callback == CallbackOf(tool)
        toolName == ToolFunctionName(tool)
    IN IF Truthy(callback) /\ callback.t = "function" /\ Truthy(toolName)
       THEN MapSet(registry, toolName.v, callback)
       ELSE registry

(* The for-of loop of lines 364-376. input collects the elements of the    *)
(* argument as the loop leaves them: the body reads tool and writes only   *)
(* cleanTools and toolCallbacks.                                           *)
RECURSIVE ExtractLoop(_, _, _, _)
ExtractLoop(rest, cleanTools, registry, input) ==
    IF rest = <<>>
    THEN [tools |-> cleanTools, toolCallbacks |-> registry, input |-> input]
    ELSE LET tool == Head(rest)
         IN ExtractLoop(Tail(rest), Append(cleanTools, CleanTool(tool)),
                        Register(registry, tool), Append(input, tool))

_extractToolCallbacks(toolList) == ExtractLoop(toolList, <<>>, EmptyMap, <<>>)

\* mutant of StripCallback: the copy is made and the callback is not deleted
StripCallbackCopiesOnly(t) == t

\* execute(), lines 340-344: const toolDef = {...t}; delete toolDef.callback
StripCallback(t) == Omit(t, "callback")

StripCallbacks(toolList) == [i \in DOMAIN toolList |-> StripCallback(toolList[i])]

-----------------------------------------------------------------------------
(* Reading a response: Agents.run lines 281-295, 303                        *)

\* response.choices?.[0] exists
HasFirstChoice(r) == Has(r, "choices") /\ Len(r.choices) >= 1

\* response.choices?.[0]?.finish_reason === 'tool_calls'
FinishedWithToolCalls(r) ==
    /\ HasFirstChoice(r)
    /\ Has(r.choices[1], "finish_reason")
    /\ r.choices[1].finish_reason = "tool_calls"

\* response.agent_metadata?.requires_tool_execution
RequiresToolExecutionFlag(r) ==
    IF Has(r, "agent_metadata") /\ Has(r.agent_metadata, "requires_tool_execution")
    THEN r.agent_metadata.requires_tool_execution ELSE Undefined

\* mutant of NeedsToolExecution: decided on the presence of tool calls
NeedsToolExecutionByToolCalls(r) ==
    /\ HasFirstChoice(r)
    /\ Has(r.choices[1], "message")
    /\ Has(r.choices[1].message, "tool_calls")
    /\ Len(r.choices[1].message.tool_calls) > 0

\* mutant of NeedsToolExecution: the requires_tool_execution flag is not read
NeedsToolExecutionByFinishReason(r) == FinishedWithToolCalls(r)

\* lines 282-283
NeedsToolExecution(r) == FinishedWithToolCalls(r) \/ Truthy(RequiresToolExecutionFlag(r))

\* line 291: response.choices?.[0]?.message?.tool_calls
PendingToolCalls(r) ==
    IF HasFirstChoice(r) /\ Has(r.choices[1], "message")
       /\ Has(r.choices[1].message, "tool_calls")
    THEN Arr(r.choices[1].message.tool_calls) ELSE Undefined

\* mutant of NoToolCalls: an empty list counts as tool calls
NoToolCallsAbsentOnly(tc) == ~Truthy(tc)

\* line 292: !toolCalls || toolCalls.length === 0
NoToolCalls(tc) == ~Truthy(tc) \/ Len(tc.items) = 0

\* line 303: response.choices[0].message.content || null
AssistantContent(r) ==
    LET m == r.choices[1].message
    IN IF Has(m, "content") /\ Truthy(m.content) THEN m.content ELSE Null

\* mutant of AssistantMessage: the assistant message lists no tool calls
AssistantMessageWithoutCalls(r, calls) ==
    [role |-> "assistant", content |-> AssistantContent(r), tool_calls |-> <<>>]

\* lines 301-305
AssistantMessage(r, calls) ==
    [role |-> "assistant", content |-> AssistantContent(r), tool_calls |-> calls]

\* lines 308-312
ToolMessage(result) ==
    [role |-> "tool", tool_call_id |-> result.tool_call_id,
     content |-> IF IsString(result.content) THEN result.content
                 ELSE JSONStringify(result.content)]

ToolMessages(rs) == [i \in DOMAIN rs |-> ToolMessage(rs[i])]

\* mutant of ExtendedMessages: the tool messages are pushed before the assistant message
ExtendedMessagesToolsFirst(messages, r, calls, rs) ==
    messages \o ToolMessages(rs) \o <<AssistantMessage(r, calls)>>

\* mutant of ExtendedMessages: the next request carries only the new messages
ExtendedMessagesDropsHistory(messages, r, calls, rs) ==
    <<AssistantMessage(r, calls)>> \o ToolMessages(rs)

\* lines 301-313: the message sequence after one Executing step
ExtendedMessages(messages, r, calls, rs) ==
    messages \o <<AssistantMessage(r, calls)>> \o ToolMessages(rs)

-----------------------------------------------------------------------------
(* Tool resolver: Agents._executeToolCallbacks, one tool call               *)

\* line 389: toolCall.function?.name
ToolCallName(toolCall) ==
    IF Has(toolCall, "function") /\ Has(toolCall.function, "name")
    THEN Str(toolCall.function.name) ELSE Undefined

\* line 390
LookupCallback(registry, toolCall) == MapGet(registry, ToolCallName(toolCall))

\* mutant of NoCallbackContent: the text itself, not wrapped in {error: ...}
NoCallbackContentBareText(toolCall) ==
    Str("No callback registered for tool: " \o TemplateText(ToolCallName(toolCall)))

\* line 410
NoCallbackContent(toolCall) ==
    Obj(<< <<"error", Str("No callback registered for tool: "
                          \o TemplateText(ToolCallName(toolCall)))>> >>)

(* lines 396-401: the arguments handed to the callback, or the SyntaxError *)
(* JSON.parse throws                                                       *)
\* mutant of ParseArguments: arguments given as text are passed on as text
ParseArgumentsPassesText(toolCall) ==
    LET present == Has(toolCall, "function") /\ Has(toolCall.function, "arguments")
                   /\ Truthy(toolCall.function.arguments)
    IN IF ~present THEN [ok |-> TRUE, value |-> Obj(<<>>)]
       ELSE [ok |-> TRUE, value |-> toolCall.function.arguments]

\* mutant of ParseArguments: text that does not parse counts as no arguments
ParseArgumentsForgiving(toolCall) ==
    LET present == Has(toolCall, "function") /\ Has(toolCall.function, "arguments")
                   /\ Truthy(toolCall.function.arguments)
    IN IF ~present THEN [ok |-> TRUE, value |-> Obj(<<>>)]
       ELSE IF IsString(toolCall.function.arguments)
            THEN (IF JSONParse(toolCall.function.arguments.v).ok
                  THEN JSONParse(toolCall.function.arguments.v)
                  ELSE [ok |-> TRUE, value |-> Obj(<<>>)])
            ELSE [ok |-> TRUE, value |-> toolCall.function.arguments]

ParseArguments(toolCall) ==
    LET present == Has(toolCall, "function") /\ Has(toolCall.function, "arguments")
                   /\ Truthy(toolCall.function.arguments)
    IN IF ~present THEN [ok |-> TRUE, value |-> Obj(<<>>)]
       ELSE IF IsString(toolCall.function.arguments)
            THEN JSONParse(toolCall.function.arguments.v)
            ELSE [ok |-> TRUE, value |-> toolCall.function.arguments]

(* line 406, error.message: reading a property of null or undefined throws *)
(* a TypeError inside the catch block; any other value has the property or *)
(* yields undefined.                                                       *)
CanReadMessage(thrown) == thrown.t \notin {"null", "undefined"}

MessageOf(thrown) == IF Has(thrown, "message") THEN thrown.message ELSE Undefined

\* line 406: result = {error: error.message}
CaughtContent(thrown) == Obj(<< <<"error", MessageOf(thrown)>> >>)

\* mutant of ToolResult: the result is keyed by the name of the function
ToolResultKeyedByName(toolCall, content) ==
    [tool_call_id |-> toolCall.function.name, content |-> content]

\* lines 413-416
ToolResult(toolCall, content) == [tool_call_id |-> toolCall.id, content |-> content]

-----------------------------------------------------------------------------
(* Agents.run and Agents.execute: the pieces of the entry points            *)

\* line 270: the default of maxToolIterations
DefaultMaxIterations == 10

\* line 270: params.maxToolIterations||10
EffectiveMaxIterations(p) ==
    IF Truthy(p.maxToolIterations) THEN p.maxToolIterations.v ELSE DefaultMaxIterations

\* lines 251-257 and 331-337: the error the validation throws, or none
InvalidRequestError(message, param) ==
    [type |-> "InvalidRequestError", message |-> message, param |-> param]

NoError == [type |-> "none"]

\* mutant of Validate: agentId is compared with undefined, so "" passes
ValidateAgentIdUndefinedOnly(p) ==
    IF p.agentId.t = "undefined"
    THEN InvalidRequestError("agentId is required", "agentId")
    ELSE IF ~Truthy(p.messages) \/ ~IsArray(p.messages)
         THEN InvalidRequestError("messages array is required", "messages")
         ELSE NoError

Validate(p) ==
    IF ~Truthy(p.agentId)
    THEN InvalidRequestError("agentId is required", "agentId")
    ELSE IF ~Truthy(p.messages) \/ ~IsArray(p.messages)
         THEN InvalidRequestError("messages array is required", "messages")
         ELSE NoError

\* params.tools||[]
ToolsOrEmpty(p) == IF Truthy(p.tools) THEN p.tools.items ELSE <<>>

\* lines 263-268 and 346-351; options are not varied: params.options||{} is {}
BuildPayload(p, cleanTools) ==
    LET base == [agentId |-> p.agentId, messages |-> p.messages, options |-> Obj(<<>>)]
    IN IF Len(cleanTools) > 0 THEN [tools |-> cleanTools] @@ base ELSE base

\* mutant of CallerArrayAfterPush: currentMessages is the caller's array itself
CallerArrayAliased(callerArray, extended) == Arr(extended)

(* lines 272 and 300-313: currentMessages is a new array ([...params.messages]), *)
(* so the pushes of the loop leave the caller's array as it was                  *)
CallerArrayAfterPush(callerArray, extended) == callerArray

\* line 276: the condition of the while loop
LoopContinues(it, maxIt) == it < maxIt

\* line 320
BudgetError(maxIt) ==
    [type |-> "Error",
     message |-> "Agent tool execution exceeded maximum iterations ("
                 \o ToString(maxIt) \o ")"]

\* line 406 when error is null or undefined: the TypeError of reading .message
MessageReadError ==
    [type |-> "TypeError", message |-> "Cannot read properties of null (reading 'message')"]

\* mutant of PreviousSettled: the callback is called and not awaited
PreviousNotAwaited(run) == TRUE

\* line 404 awaits the callback: the for-of loop goes on only when it has settled
PreviousSettled(run) == run = {}

\* mutant of AllSettled: the resolver is not awaited
AllSettledNotAwaited(run) == TRUE

\* line 298 awaits _executeToolCallbacks, which has awaited each callback
AllSettled(run) == run = {}

NoOutcome == [kind |-> "none"]
Returned(r) == [kind |-> "response", value |-> r]
\* origin tells which part of the code threw
Thrown(e, origin) == [kind |-> "error", error |-> e, origin |-> origin]

-----------------------------------------------------------------------------
(* The environment: the caller's inputs, the callbacks, the agent endpoint  *)

\* what a callback does when it is called
Returns(v) == [kind |-> "return", value |-> v]
Throws(v) == [kind |-> "throw", value |-> v]

cbString == Fn("cbString", Returns(Str("sunny")))
cbObject == Fn("cbObject", Returns(Obj(<< <<"result", Num(4)>> >>)))
cbBoom == Fn("cbBoom", Throws(ErrorObj("boom")))
cbNull == Fn("cbNull", Throws(Null))
\* a callback that returns a primitive, and one that returns no value
cbNumber == Fn("cbNumber", Returns(Num(42)))
cbVoid == Fn("cbVoid", Returns(Undefined))

Tool(name, callback) ==
    [type |-> "function", function |-> [name |-> name, description |-> "a tool"],
     callback |-> callback]

\* a webhook tool: no callback, executes server-side
HookTool ==
    [type |-> "function", function |-> [name |-> "hook", description |-> "a webhook"],
     webhookUrl |-> "https://example.test/hook"]

\* a tool whose callback field is not a function
BadCallbackTool ==
    [type |-> "function", function |-> [name |-> "ghost", description |-> "a tool"],
     callback |-> Str("not a function")]

\* a tool with a callback and no function name
NamelessTool == [type |-> "function", function |-> [description |-> "a tool"],
                 callback |-> cbString]

\* the tool lists run() and execute() are called with in Spec
RunToolLists ==
    { Undefined,
      Arr(<<Tool("calc", cbObject), Tool("fail", cbBoom), HookTool>>),
      Arr(<<Tool("calc", cbString), Tool("fail", cbNull), BadCallbackTool>>),
      Arr(<<Tool("calc", cbBoom), Tool("calc", cbString), NamelessTool>>),
      Arr(<<Tool("calc", cbNumber), Tool("fail", cbVoid)>>) }

AgentIdInputs == {Undefined, Str(""), Str("agent-1")}

UserMessage == [role |-> "user", content |-> Str("2+2?")]

MessagesInputs == {Undefined, Str("2+2?"), Arr(<<>>), Arr(<<UserMessage>>)}

BudgetInputs == {Undefined, Num(-1), Num(0)} \cup {Num(n) : n \in 1..MaxBudget}

RunParams ==
    [agentId : AgentIdInputs, messages : MessagesInputs, tools : RunToolLists,
     maxToolIterations : BudgetInputs]

ExecuteParams ==
    [agentId : AgentIdInputs, messages : MessagesInputs, tools : RunToolLists,
     maxToolIterations : {Undefined}]

\* the tool calls a response can carry: the names a response asks for
CallNames == {"calc", "fail", "ghost"}

ToolCall(i, name) ==
    [id |-> "call_" \o ToString(i), type |-> "function",
     function |-> IF name = "calc"
                  THEN [name |-> name, arguments |-> Str("{\"x\":1}")]
                  ELSE [name |-> name]]

ToolCallsNamed(names) == [i \in DOMAIN names |-> ToolCall(i, names[i])]

CallLists == {ToolCallsNamed(names) : names \in UNION {[1..n -> CallNames] : n \in 0..MaxCalls}}

FinalResponse ==
    [id |-> "resp",
     choices |-> <<[message |-> [role |-> "assistant", content |-> Str("done")],
                    finish_reason |-> "stop"]>>]

\* a response without choices
EmptyResponse == [id |-> "resp"]

\* flagged, and no choices at all
FlagOnlyResponse ==
    [id |-> "resp", agent_metadata |-> [requires_tool_execution |-> Bool(TRUE)]]

\* finish reason tool_calls, and a message without a tool_calls field
NoListResponse ==
    [id |-> "resp",
     choices |-> <<[message |-> [role |-> "assistant", content |-> Str("thinking")],
                    finish_reason |-> "tool_calls"]>>]

ToolResponse(finish, flagged, calls) ==
    LET r == [id |-> "resp",
              choices |-> <<[message |-> [role |-> "assistant", content |-> Null,
                                          tool_calls |-> calls],
                             finish_reason |-> finish]>>]
    IN IF flagged
       THEN [agent_metadata |-> [requires_tool_execution |-> Bool(TRUE)]] @@ r
       ELSE r

Signals == {<<"stop", FALSE>>, <<"tool_calls", FALSE>>, <<"stop", TRUE>>}

RichResponses ==
    {FinalResponse, EmptyResponse, FlagOnlyResponse, NoListResponse}
    \cup {ToolResponse(sg[1], sg[2], calls) : sg \in Signals, calls \in CallLists}

PlainResponses == {FinalResponse, ToolResponse("tool_calls", FALSE, <<ToolCall(1, "calc")>>)}

\* the longest tool-call list of a response of SpecArgs
MaxArgCalls == 2

\* the forms the arguments of a tool call take
ArgumentForms == {"absent", "text", "structured", "empty", "invalid", "ghost"}

ArgumentsOf(form) ==
    CASE form = "text" -> Str("{\"x\":1}")
      [] form = "structured" -> Obj(<< <<"x", Num(1)>> >>)
      [] form = "empty" -> Str("")
      [] form = "invalid" -> Str("{x")
      [] form = "ghost" -> Str("{}")

\* tool call i of a response: a call of calc (of ghost for the form "ghost")
ArgCall(i, form) ==
    [id |-> "call_" \o ToString(i), type |-> "function",
     function |-> IF form = "absent" THEN [name |-> "calc"]
                  ELSE [name |-> IF form = "ghost" THEN "ghost" ELSE "calc",
                        arguments |-> ArgumentsOf(form)]]

ArgCallLists ==
    {[i \in DOMAIN forms |-> ArgCall(i, forms[i])] :
        forms \in UNION {[1..n -> ArgumentForms] : n \in 1..MaxArgCalls}}

ArgsResponses ==
    {FinalResponse} \cup {ToolResponse("tool_calls", FALSE, calls) : calls \in ArgCallLists}

(* A "plain" server answers every request from PlainResponses; a "rich"    *)
(* server answers the first MaxRichIterations requests of a call from      *)
(* RichResponses and completes after them; an "args" server answers the    *)
(* first request from ArgsResponses and completes after it.                *)
ServerResponses(kind, it) ==
    IF kind = "plain" THEN PlainResponses
    ELSE IF kind = "args" THEN (IF it = 1 THEN ArgsResponses ELSE {FinalResponse})
    ELSE IF it <= MaxRichIterations THEN RichResponses ELSE {FinalResponse}

\* a rich server is paired with the budgets the caller passes as positive numbers
Scenario(p, kind) ==
    kind = "rich" => (p.maxToolIterations.t = "number" /\ p.maxToolIterations.v > 0)

-----------------------------------------------------------------------------
(* Agentlify (src/index.js): the error classes, _handleError and the retry *)
(* loop of request()                                                       *)

\* index.js line 36: the default of maxRetries
DefaultMaxRetries == 3

\* index.js line 36: validatedConfig.maxRetries||3
EffectiveMaxRetries(c) == IF Truthy(c) THEN c.v ELSE DefaultMaxRetries

\* index.js line 144: the first backoff delay and the ceiling, in milliseconds
BackoffBase == 1000
BackoffCap == 10000

(* The error classes of errors.js, as the declarations give them: every    *)
(* APIError has a numeric status. APIError keeps the status it is given;   *)
(* AuthenticationError and RateLimitError are constructed from a message   *)
(* alone and carry the status of the response they stand for.              *)
AgentlifyError(message) == [type |-> "AgentlifyError", message |-> message]

APIError(message, status, data) ==
    [type |-> "APIError", message |-> message, status |-> status, response |-> data]

AuthenticationError(message) ==
    [type |-> "AuthenticationError", message |-> message, status |-> 401]

RateLimitError(message) ==
    [type |-> "RateLimitError", message |-> message, status |-> 429]

\* the declarations: AuthenticationError and RateLimitError extend APIError
InstanceOfAPIError(e) == e.type \in {"APIError", "AuthenticationError", "RateLimitError"}

InstanceOfAuthenticationError(e) == e.type = "AuthenticationError"

\* index.js line 85: data?.error?.message||data?.message||'Unknown error'
ErrorMessage(data) ==
    IF Has(data, "error") /\ Has(data.error, "message") /\ data.error.message # ""
    THEN data.error.message
    ELSE IF Has(data, "message") /\ data.message # ""
         THEN data.message
         ELSE "Unknown error"

\* mutant of _handleError: a 429 is not told apart from the other statuses
_handleErrorWithoutRateLimit(error) ==
    IF Has(error, "response")
    THEN LET status == error.response.status
             data == error.response.data
             errorMessage == ErrorMessage(data)
         IN CASE status = 401 -> AuthenticationError(errorMessage)
              [] OTHER -> APIError(errorMessage, status, data)
    ELSE IF Has(error, "request")
         THEN AgentlifyError("Network error: No response received")
         ELSE AgentlifyError("Request error: " \o error.message)

\* index.js lines 80-104: the error the response interceptor throws
_handleError(error) ==
    IF Has(error, "response")
    THEN LET status == error.response.status
             data == error.response.data
             errorMessage == ErrorMessage(data)
         IN CASE status = 401 -> AuthenticationError(errorMessage)
              [] status = 429 -> RateLimitError(errorMessage)
              [] status = 400 -> APIError(errorMessage, status, data)
              [] status = 422 -> APIError(errorMessage, status, data)
              [] OTHER -> APIError(errorMessage, status, data)
    ELSE IF Has(error, "request")
         THEN AgentlifyError("Network error: No response received")
         ELSE AgentlifyError("Request error: " \o error.message)

\* mutant of NotRetried: only authentication failures end the loop
NotRetriedAuthenticationOnly(error) == InstanceOfAuthenticationError(error)

\* index.js lines 133-134: the errors thrown at once
NotRetried(error) ==
    \/ InstanceOfAuthenticationError(error)
    \/ (InstanceOfAPIError(error) /\ error.status < 500)

\* mutant of AttemptAllowed: the loop stops one attempt early
AttemptAllowedStrict(n, maxR) == n < maxR

\* index.js line 125: the condition of the for loop
AttemptAllowed(n, maxR) == n <= maxR

\* mutant of LastAttempt: the last attempt is not told from the others
LastAttemptUnnoticed(n, maxR) == FALSE

\* index.js line 139
LastAttempt(n, maxR) == n = maxR

MathMin(a, b) == IF a <= b THEN a ELSE b

\* mutant of BackoffDelay: the delay is not capped
BackoffDelayUncapped(n) == 1000 * 2^n

\* index.js line 144: Math.min(1000*Math.pow(2,attempt),10000)
BackoffDelay(n) == MathMin(1000 * 2^n, 10000)

\* the largest maxRetries a client is configured with
MaxRetries == 5

\* validatedConfig.maxRetries of the clients of SpecRequest
RetryConfigs == {Undefined, Num(0)} \cup {Num(n) : n \in 1..MaxRetries}

\* what the HTTP client rejects an attempt with, before the interceptor
ResponseFailure(status, data) == [response |-> [status |-> status, data |-> data]]

HttpFailures ==
    { ResponseFailure(401, [error |-> [message |-> "Invalid API key"]]),
      ResponseFailure(429, [message |-> "Too many requests"]),
      ResponseFailure(400, [error |-> [message |-> "Bad request"]]),
      ResponseFailure(500, [id |-> "none"]),
      ResponseFailure(503, [message |-> "Unavailable"]),
      [request |-> "sent"],
      [message |-> "socket hang up"] }

\* the bodies of the successful attempts of SpecRequest
SuccessData == {FinalResponse, EmptyResponse}

(* what _executeAgent throws in Spec, where request() is one step: an      *)
(* authentication error, a server error and a network error                *)
TransportErrors ==
    { _handleError(ResponseFailure(401, [error |-> [message |-> "Invalid API key"]])),
      _handleError(ResponseFailure(500, [id |-> "none"])),
      _handleError([request |-> "sent"]) }

-----------------------------------------------------------------------------
(* The state machine                                                       *)

AgentInit ==
    /\ pc = "idle"
    /\ method = "none"
    /\ params = Undefined
    /\ callerTools = Undefined
    /\ callerMessages = Undefined
    /\ tools = <<>>
    /\ toolCallbacks = EmptyMap
    /\ requestPayload = Undefined
    /\ maxIterations = 0
    /\ iteration = 0
    /\ currentMessages = <<>>
    /\ response = Undefined
    /\ toolCalls = <<>>
    /\ results = <<>>
    /\ idx = 0
    /\ running = {}
    /\ requests = <<>>
    /\ invocations = <<>>
    /\ server = "none"
    /\ outcome = NoOutcome

\* index.js lines 27-36: a client constructed with validatedConfig.maxRetries = c
TransportInit(c) ==
    /\ configured = c
    /\ maxRetries = EffectiveMaxRetries(c)
    /\ httpPc = "ready"
    /\ attempt = 0
    /\ lastError = Undefined
    /\ attempts = <<>>
    /\ delays = <<>>
    /\ requestOutcome = NoOutcome

\* the local variables of the invocation that is scheduled
Locals ==
    [pc |-> pc, method |-> method, params |-> params, callerTools |-> callerTools,
     callerMessages |-> callerMessages, tools |-> tools, toolCallbacks |-> toolCallbacks,
     requestPayload |-> requestPayload, maxIterations |-> maxIterations,
     iteration |-> iteration, currentMessages |-> currentMessages,
     response |-> response, toolCalls |-> toolCalls, results |-> results, idx |-> idx,
     running |-> running, requests |-> requests, invocations |-> invocations,
     server |-> server, outcome |-> outcome]

\* the local variables of an invocation that has not been called
IdleLocals ==
    [pc |-> "idle", method |-> "none", params |-> Undefined, callerTools |-> Undefined,
     callerMessages |-> Undefined, tools |-> <<>>, toolCallbacks |-> EmptyMap,
     requestPayload |-> Undefined, maxIterations |-> 0, iteration |-> 0,
     currentMessages |-> <<>>, response |-> Undefined, toolCalls |-> <<>>,
     results |-> <<>>, idx |-> 0, running |-> {}, requests |-> <<>>,
     invocations |-> <<>>, server |-> "none", outcome |-> NoOutcome]

\* a client constructed without maxRetries, and no call yet
Init == AgentInit /\ TransportInit(Undefined) /\ other = IdleLocals

\* Agents.run, lines 250-279: from the call to the first await
run(p, kind) ==
    /\ pc = "idle"
    /\ UNCHANGED <<transportVars, other>>
    /\ Scenario(p, kind)
    /\ method' = "run"
    /\ params' = p
    /\ server' = kind
    /\ callerMessages' = p.messages
    /\ UNCHANGED <<response, toolCalls, results, idx, running, invocations>>
    /\ IF Validate(p) # NoError
       THEN /\ pc' = "failed"
            /\ outcome' = Thrown(Validate(p), "validation")
            /\ callerTools' = p.tools
            /\ UNCHANGED <<tools, toolCallbacks, requestPayload, maxIterations,
                           iteration, currentMessages, requests>>
       ELSE LET ex == _extractToolCallbacks(ToolsOrEmpty(p))
                payload == BuildPayload(p, ex.tools)
                maxIt == EffectiveMaxIterations(p)
            IN /\ tools' = ex.tools
               /\ toolCallbacks' = ex.toolCallbacks
               /\ callerTools' = IF Truthy(p.tools) THEN Arr(ex.input) ELSE p.tools
               /\ requestPayload' = payload
               /\ maxIterations' = maxIt
               /\ currentMessages' = p.messages.items
               /\ IF LoopContinues(0, maxIt)
                  THEN /\ iteration' = 1
                       /\ requests' = <<payload>>
                       /\ pc' = "calling"
                       /\ outcome' = NoOutcome
                  ELSE /\ iteration' = 0
                       /\ requests' = <<>>
                       /\ pc' = "failed"
                       /\ outcome' = Thrown(BudgetError(maxIt), "budget")

\* Agents.run, lines 279-298: the response arrives and is inspected
InspectResponse(r) ==
    /\ pc = "calling"
    /\ r \in ServerResponses(server, iteration)
    /\ response' = r
    /\ UNCHANGED <<method, params, callerTools, callerMessages, tools, toolCallbacks,
                   requestPayload, maxIterations, iteration, currentMessages,
                   requests, invocations, server>>
    /\ IF ~NeedsToolExecution(r) \/ NoToolCalls(PendingToolCalls(r))
       THEN /\ pc' = "returned"
            /\ outcome' = Returned(r)
            /\ UNCHANGED <<toolCalls, results, idx, running>>
       ELSE /\ pc' = "resolving"
            /\ toolCalls' = PendingToolCalls(r).items
            /\ results' = <<>>
            /\ idx' = 0
            /\ running' = {}
            /\ UNCHANGED outcome

\* the same, in the specifications where request() is one step
ReceiveResponse(r) == InspectResponse(r) /\ UNCHANGED <<transportVars, other>>

\* _executeAgent rejects: client.request threw; nothing in run/execute catches it
Rejected(e) ==
    /\ pc \in {"calling", "requesting"}
    /\ pc' = "failed"
    /\ outcome' = Thrown(e, "transport")
    /\ UNCHANGED <<method, params, callerTools, callerMessages, tools, toolCallbacks,
                   requestPayload, maxIterations, iteration, currentMessages, response,
                   toolCalls, results, idx, running, requests, invocations, server>>

\* the same, in the specifications where request() is one step
TransportFailure(e) ==
    /\ e \in TransportErrors
    /\ Rejected(e)
    /\ UNCHANGED <<transportVars, other>>

\* _executeToolCallbacks, lines 388-416, a tool call without a callback
ResolveUnregistered ==
    /\ pc = "resolving"
    /\ UNCHANGED <<transportVars, other>>
    /\ idx < Len(toolCalls)
    /\ PreviousSettled(running)
    /\ LET toolCall == toolCalls[idx + 1]
       IN /\ ~Truthy(LookupCallback(toolCallbacks, toolCall))
          /\ results' = Append(results, ToolResult(toolCall, NoCallbackContent(toolCall)))
    /\ idx' = idx + 1
    /\ UNCHANGED <<pc, method, params, callerTools, callerMessages, tools, toolCallbacks,
                   requestPayload, maxIterations, iteration, currentMessages, response,
                   toolCalls, running, requests, invocations, server, outcome>>

(* _executeToolCallbacks, lines 388-404, a tool call with a callback: the  *)
(* arguments are parsed and the callback is called; a SyntaxError of       *)
(* JSON.parse is caught by line 405 before any call.                       *)
CallbackStart ==
    /\ pc = "resolving"
    /\ UNCHANGED <<transportVars, other>>
    /\ idx < Len(toolCalls)
    /\ PreviousSettled(running)
    /\ LET toolCall == toolCalls[idx + 1]
           callback == LookupCallback(toolCallbacks, toolCall)
           args == ParseArguments(toolCall)
       IN /\ Truthy(callback)
          /\ IF args.ok
             THEN /\ invocations' = Append(invocations,
                          [callback |-> callback.id, args |-> args.value,
                           call |-> idx + 1, iteration |-> iteration])
                  /\ running' = running \cup {idx + 1}
                  /\ UNCHANGED results
             ELSE /\ results' = Append(results, ToolResult(toolCall, CaughtContent(args.error)))
                  /\ UNCHANGED <<invocations, running>>
    /\ idx' = idx + 1
    /\ UNCHANGED <<pc, method, params, callerTools, callerMessages, tools, toolCallbacks,
                   requestPayload, maxIterations, iteration, currentMessages, response,
                   toolCalls, requests, server, outcome>>

(* lines 404-416: the awaited callback settles. Its value becomes the      *)
(* content; what it throws goes through the catch block of line 405,       *)
(* whose own TypeError nothing catches.                                    *)
CallbackSettle(i) ==
    /\ pc = "resolving"
    /\ UNCHANGED <<transportVars, other>>
    /\ i \in running
    /\ running' = running \ {i}
    /\ LET toolCall == toolCalls[i]
           behaviour == LookupCallback(toolCallbacks, toolCall).behaviour
       IN IF behaviour.kind = "return"
          THEN /\ results' = Append(results, ToolResult(toolCall, behaviour.value))
               /\ UNCHANGED <<pc, outcome>>
          ELSE IF CanReadMessage(behaviour.value)
               THEN /\ results' = Append(results,
                                         ToolResult(toolCall, CaughtContent(behaviour.value)))
                    /\ UNCHANGED <<pc, outcome>>
               ELSE /\ pc' = "failed"
                    /\ outcome' = Thrown(MessageReadError, "resolver")
                    /\ UNCHANGED results
    /\ UNCHANGED <<method, params, callerTools, callerMessages, tools, toolCallbacks,
                   requestPayload, maxIterations, iteration, currentMessages, response,
                   toolCalls, idx, requests, invocations, server>>

\* mutant of Resubmit: the next request is sent with the messages of the last one
ResubmitStalePayload ==
    /\ pc = "resolving"
    /\ UNCHANGED <<transportVars, other>>
    /\ idx = Len(toolCalls)
    /\ AllSettled(running)
    /\ LoopContinues(iteration, maxIterations)
    /\ LET extended == ExtendedMessages(currentMessages, response, toolCalls, results)
           payload == requestPayload
       IN /\ currentMessages' = extended
          /\ callerMessages' = CallerArrayAfterPush(callerMessages, extended)
          /\ requestPayload' = payload
          /\ requests' = Append(requests, payload)
    /\ iteration' = iteration + 1
    /\ pc' = "calling"
    /\ UNCHANGED <<method, params, callerTools, tools, toolCallbacks,
                   maxIterations, response, toolCalls, results, idx, running,
                   invocations, server, outcome>>

(* lines 298-317 and 276-279: the resolver has returned; the messages are  *)
(* appended and the loop sends the next request                            *)
Resubmit ==
    /\ pc = "resolving"
    /\ UNCHANGED <<transportVars, other>>
    /\ idx = Len(toolCalls)
    /\ AllSettled(running)
    /\ LoopContinues(iteration, maxIterations)
    /\ LET extended == ExtendedMessages(currentMessages, response, toolCalls, results)
           payload == [requestPayload EXCEPT !.messages = Arr(extended)]
       IN /\ currentMessages' = extended
          /\ callerMessages' = CallerArrayAfterPush(callerMessages, extended)
          /\ requestPayload' = payload
          /\ requests' = Append(requests, payload)
    /\ iteration' = iteration + 1
    /\ pc' = "calling"
    /\ UNCHANGED <<method, params, callerTools, tools, toolCallbacks,
                   maxIterations, response, toolCalls, results, idx, running,
                   invocations, server, outcome>>

\* mutant of BudgetExceeded: out of budget, run() returns the last response
BudgetExceededReturnsLast ==
    /\ pc = "resolving"
    /\ UNCHANGED <<transportVars, other>>
    /\ idx = Len(toolCalls)
    /\ running = {}
    /\ ~LoopContinues(iteration, maxIterations)
    /\ pc' = "returned"
    /\ outcome' = Returned(response)
    /\ UNCHANGED <<method, params, callerTools, callerMessages, tools, toolCallbacks,
                   requestPayload, currentMessages, maxIterations, iteration, response,
                   toolCalls, results, idx, running, requests, invocations, server>>

(* lines 298-320: the resolver has returned and the messages are appended, *)
(* the while condition fails and line 320 throws                           *)
BudgetExceeded ==
    /\ pc = "resolving"
    /\ UNCHANGED <<transportVars, other>>
    /\ idx = Len(toolCalls)
    /\ running = {}
    /\ ~LoopContinues(iteration, maxIterations)
    /\ LET extended == ExtendedMessages(currentMessages, response, toolCalls, results)
       IN /\ currentMessages' = extended
          /\ callerMessages' = CallerArrayAfterPush(callerMessages, extended)
          /\ requestPayload' = [requestPayload EXCEPT !.messages = Arr(extended)]
    /\ pc' = "failed"
    /\ outcome' = Thrown(BudgetError(maxIterations), "budget")
    /\ UNCHANGED <<method, params, callerTools, tools, toolCallbacks,
                   maxIterations, iteration, response, toolCalls, results, idx, running,
                   requests, invocations, server>>

\* Agents.execute, lines 330-353: from the call to the await of _executeAgent
execute(p) ==
    /\ pc = "idle"
    /\ UNCHANGED <<transportVars, other>>
    /\ method' = "execute"
    /\ params' = p
    /\ server' = "rich"
    /\ callerMessages' = p.messages
    /\ callerTools' = p.tools
    /\ UNCHANGED <<toolCallbacks, maxIterations, iteration, currentMessages, response,
                   toolCalls, results, idx, running, invocations>>
    /\ IF Validate(p) # NoError
       THEN /\ pc' = "failed"
            /\ outcome' = Thrown(Validate(p), "validation")
            /\ UNCHANGED <<tools, requestPayload, requests>>
       ELSE LET stripped == StripCallbacks(ToolsOrEmpty(p))
                payload == BuildPayload(p, stripped)
            IN /\ tools' = stripped
               /\ requestPayload' = payload
               /\ requests' = <<payload>>
               /\ pc' = "requesting"
               /\ outcome' = NoOutcome

\* mutant of ExecuteReturn: execute() resolves the tool calls of the response
ExecuteReturnResolves(r) ==
    /\ pc = "requesting"
    /\ UNCHANGED <<transportVars, other>>
    /\ r \in RichResponses
    /\ response' = r
    /\ UNCHANGED <<method, params, callerTools, callerMessages, tools, toolCallbacks,
                   requestPayload, maxIterations, iteration, currentMessages,
                   requests, invocations, server>>
    /\ IF ~NeedsToolExecution(r) \/ NoToolCalls(PendingToolCalls(r))
       THEN /\ pc' = "returned"
            /\ outcome' = Returned(r)
            /\ UNCHANGED <<toolCalls, results, idx, running>>
       ELSE /\ pc' = "resolving"
            /\ toolCalls' = PendingToolCalls(r).items
            /\ results' = <<>>
            /\ idx' = 0
            /\ running' = {}
            /\ UNCHANGED outcome

\* Agents.execute, line 353: the response of _executeAgent is the result
ExecuteReturn(r) ==
    /\ pc = "requesting"
    /\ UNCHANGED <<transportVars, other>>
    /\ r \in RichResponses
    /\ response' = r
    /\ pc' = "returned"
    /\ outcome' = Returned(r)
    /\ UNCHANGED <<method, params, callerTools, callerMessages, tools, toolCallbacks,
                   requestPayload, maxIterations, iteration, currentMessages,
                   toolCalls, results, idx, running, requests, invocations, server>>

\* the steps after the entry point
Step ==
    \/ \E r \in RichResponses : ReceiveResponse(r)
    \/ \E r \in RichResponses : ExecuteReturn(r)
    \/ \E e \in TransportErrors : TransportFailure(e)
    \/ ResolveUnregistered
    \/ CallbackStart
    \/ \E i \in 1..MaxCalls : CallbackSettle(i)
    \/ Resubmit
    \/ BudgetExceeded

Next ==
    \/ \E p \in RunParams, kind \in {"rich", "plain"} : run(p, kind)
    \/ \E p \in ExecuteParams : execute(p)
    \/ Step

Spec == Init /\ [][Next]_vars

-----------------------------------------------------------------------------
(* SpecRequest: one call of Agentlify.request() on a client of every       *)
(* configured maxRetries; each HTTP attempt succeeds or fails in one of    *)
(* the ways of HttpFailures                                                *)

InitRequest ==
    AgentInit /\ other = IdleLocals /\ \E c \in RetryConfigs : TransportInit(c)

\* request(), index.js lines 112-127: from the call to the first attempt
request ==
    /\ httpPc = "ready"
    /\ attempt' = 0
    /\ lastError' = Undefined
    /\ attempts' = <<>>
    /\ delays' = <<>>
    /\ IF AttemptAllowed(0, maxRetries)
       THEN /\ httpPc' = "attempting"
            /\ requestOutcome' = NoOutcome
       ELSE /\ httpPc' = "thrown"
            /\ requestOutcome' = Thrown(Undefined, "transport")
    /\ UNCHANGED <<configured, maxRetries>>
    /\ UNCHANGED <<agentVars, other>>

\* index.js lines 127-128: the attempt succeeds and its data is returned
AttemptSucceeds(data) ==
    /\ httpPc = "attempting"
    /\ attempts' = Append(attempts,
           [attempt |-> attempt, result |-> "ok", data |-> data])
    /\ httpPc' = "returned"
    /\ requestOutcome' = Returned(data)
    /\ UNCHANGED <<configured, maxRetries, attempt, lastError, delays>>
    /\ UNCHANGED <<agentVars, other>>

(* index.js lines 129-145: the attempt fails; the interceptor has turned   *)
(* the failure into an Agentlify error, which is thrown at once, or ends   *)
(* the loop on the last attempt, or is followed by the backoff wait        *)
AttemptFails(failure) ==
    /\ httpPc = "attempting"
    /\ LET error == _handleError(failure)
       IN /\ lastError' = error
          /\ attempts' = Append(attempts,
                 [attempt |-> attempt, result |-> "error", error |-> error,
                  failure |-> failure])
          /\ IF NotRetried(error) \/ LastAttempt(attempt, maxRetries)
             THEN /\ httpPc' = "thrown"
                  /\ requestOutcome' = Thrown(error, "transport")
                  /\ UNCHANGED delays
             ELSE /\ httpPc' = "waiting"
                  /\ delays' = Append(delays, BackoffDelay(attempt))
                  /\ UNCHANGED requestOutcome
    /\ UNCHANGED <<configured, maxRetries, attempt>>
    /\ UNCHANGED <<agentVars, other>>

\* mutant of BackoffElapsed: the promise of the wait is never resolved
BackoffNeverElapses ==
    /\ httpPc = "waiting"
    /\ FALSE
    /\ UNCHANGED vars

\* index.js lines 145 and 125: the timer fires, attempt++ and the loop test
BackoffElapsed ==
    /\ httpPc = "waiting"
    /\ attempt' = attempt + 1
    /\ IF AttemptAllowed(attempt + 1, maxRetries)
       THEN /\ httpPc' = "attempting"
            /\ UNCHANGED requestOutcome
       ELSE /\ httpPc' = "thrown"
            /\ requestOutcome' = Thrown(lastError, "transport")
    /\ UNCHANGED <<configured, maxRetries, lastError, attempts, delays>>
    /\ UNCHANGED <<agentVars, other>>

NextRequest ==
    \/ request
    \/ \E data \in SuccessData : AttemptSucceeds(data)
    \/ \E failure \in HttpFailures : AttemptFails(failure)
    \/ BackoffElapsed

SpecRequest == InitRequest /\ [][NextRequest]_vars

-----------------------------------------------------------------------------
(* SpecArgs: run() against a server whose first response calls tools with  *)
(* arguments of every form                                                 *)

ArgsParams ==
    [agentId : {Str("agent-1")}, messages : {Arr(<<UserMessage>>)},
     tools : {Arr(<<Tool("calc", cbObject)>>), Arr(<<Tool("calc", cbBoom)>>)},
     maxToolIterations : {Num(1), Num(2)}]

NextArgs ==
    \/ \E p \in ArgsParams : run(p, "args")
    \/ \E r \in ArgsResponses : ReceiveResponse(r)
    \/ \E e \in TransportErrors : TransportFailure(e)
    \/ ResolveUnregistered
    \/ CallbackStart
    \/ \E i \in 1..MaxArgCalls : CallbackSettle(i)
    \/ Resubmit
    \/ BudgetExceeded

SpecArgs == Init /\ [][NextArgs]_vars

-----------------------------------------------------------------------------
(* SpecLoop: run() on a client whose request() makes its attempts one by   *)
(* one: _executeAgent calls request(), and the await of line 279 is over   *)
(* when request() has returned or thrown                                   *)

LoopParams ==
    [agentId : {Str("agent-1")}, messages : {Arr(<<UserMessage>>)},
     tools : {Undefined, Arr(<<Tool("calc", cbObject)>>)},
     maxToolIterations : {Num(1), Num(2)}]

\* _executeAgent, lines 426-432: this.client.request('/agents', ...)
_executeAgent ==
    /\ pc = "calling"
    /\ request

\* line 279: request() returned, the awaited promise is fulfilled with its data
AwaitResolved ==
    /\ httpPc = "returned"
    /\ httpPc' = "ready"
    /\ InspectResponse(requestOutcome.value)
    /\ UNCHANGED <<configured, maxRetries, attempt, lastError, attempts, delays,
                   requestOutcome, other>>

\* line 279: request() threw, the awaited promise is rejected with its error
AwaitRejected ==
    /\ httpPc = "thrown"
    /\ httpPc' = "ready"
    /\ Rejected(requestOutcome.error)
    /\ UNCHANGED <<configured, maxRetries, attempt, lastError, attempts, delays,
                   requestOutcome, other>>

(* the steps of a run that is under way: those of the code of run() and of *)
(* request(), the outcomes of the HTTP attempts, the timer and the         *)
(* callbacks                                                               *)
LoopStep ==
    \/ _executeAgent
    \/ \E data \in PlainResponses : AttemptSucceeds(data)
    \/ \E failure \in HttpFailures : AttemptFails(failure)
    \/ BackoffElapsed
    \/ AwaitResolved
    \/ AwaitRejected
    \/ ResolveUnregistered
    \/ CallbackStart
    \/ \E i \in 1..MaxCalls : CallbackSettle(i)
    \/ Resubmit
    \/ BudgetExceeded

NextLoop ==
    \/ \E p \in LoopParams : run(p, "plain")
    \/ LoopStep

SpecLoop == Init /\ [][NextLoop]_vars

(* SpecLoop with its scheduling: every HTTP attempt and every callback     *)
(* completes, the timer of line 145 fires, and the event loop runs the     *)
(* continuation of every settled await. Whether run() is called at all is  *)
(* left to the caller.                                                     *)
FairSpecLoop == Init /\ [][NextLoop]_vars /\ WF_vars(LoopStep)

-----------------------------------------------------------------------------
(* SpecPair: two invocations of run() on one client. The variables of      *)
(* agentVars are the locals of the invocation that is scheduled, other     *)
(* holds the locals of the suspended one, and Switch hands the thread from *)
(* one to the other at an await.                                           *)

PairParams ==
    [agentId : {Str("agent-1")}, messages : {Arr(<<UserMessage>>)},
     tools : {Undefined, Arr(<<Tool("calc", cbObject)>>), Arr(<<Tool("calc", cbString)>>)},
     maxToolIterations : {Num(2)}]

\* the scheduled invocation is suspended at an await (lines 279, 298, 404) or is over
AtAwait == pc # "resolving" \/ running # {} \/ idx = Len(toolCalls)

\* mutant of Switch: the registry is a field of the Agents object, shared by the invocations
SwitchSharingRegistry ==
    /\ AtAwait
    /\ other' = Locals
    /\ pc' = other.pc
    /\ method' = other.method
    /\ params' = other.params
    /\ callerTools' = other.callerTools
    /\ callerMessages' = other.callerMessages
    /\ tools' = other.tools
    /\ UNCHANGED toolCallbacks
    /\ requestPayload' = other.requestPayload
    /\ maxIterations' = other.maxIterations
    /\ iteration' = other.iteration
    /\ currentMessages' = other.currentMessages
    /\ response' = other.response
    /\ toolCalls' = other.toolCalls
    /\ results' = other.results
    /\ idx' = other.idx
    /\ running' = other.running
    /\ requests' = other.requests
    /\ invocations' = other.invocations
    /\ server' = other.server
    /\ outcome' = other.outcome
    /\ UNCHANGED transportVars

(* The event loop resumes the other invocation: every variable of run() is *)
(* a const or let of the call (lines 260-273, 279-298), so each invocation *)
(* finds its own.                                                          *)
Switch ==
    /\ AtAwait
    /\ other' = Locals
    /\ pc' = other.pc
    /\ method' = other.method
    /\ params' = other.params
    /\ callerTools' = other.callerTools
    /\ callerMessages' = other.callerMessages
    /\ tools' = other.tools
    /\ toolCallbacks' = other.toolCallbacks
    /\ requestPayload' = other.requestPayload
    /\ maxIterations' = other.maxIterations
    /\ iteration' = other.iteration
    /\ currentMessages' = other.currentMessages
    /\ response' = other.response
    /\ toolCalls' = other.toolCalls
    /\ results' = other.results
    /\ idx' = other.idx
    /\ running' = other.running
    /\ requests' = other.requests
    /\ invocations' = other.invocations
    /\ server' = other.server
    /\ outcome' = other.outcome
    /\ UNCHANGED transportVars

NextPair ==
    \/ \E p \in PairParams : run(p, "plain")
    \/ Switch
    \/ \E r \in PlainResponses : ReceiveResponse(r)
    \/ \E e \in TransportErrors : TransportFailure(e)
    \/ ResolveUnregistered
    \/ CallbackStart
    \/ \E i \in 1..MaxCalls : CallbackSettle(i)
    \/ Resubmit
    \/ BudgetExceeded

SpecPair == Init /\ [][NextPair]_vars

-----------------------------------------------------------------------------
(* SpecExtract: the entry points on every tool list of at most MaxTools    *)
(* tool definitions, against a plain server                                *)

\* a tool with a callback and no function field
BareCallbackTool == [type |-> "function", callback |-> cbObject]

ExtractToolDefs ==
    {Tool("calc", cbString), Tool("calc", cbBoom), Tool("fail", cbNull), HookTool,
     BadCallbackTool, NamelessTool, BareCallbackTool}

ExtractToolLists == UNION {[1..n -> ExtractToolDefs] : n \in 0..MaxTools}

ExtractParams ==
    [agentId : {Str("agent-1")}, messages : {Arr(<<UserMessage>>)},
     tools : {Arr(l) : l \in ExtractToolLists}, maxToolIterations : {Num(2)}]

NextExtract ==
    \/ \E p \in ExtractParams : run(p, "plain")
    \/ \E p \in ExtractParams : execute(p)
    \/ Step

SpecExtract == Init /\ [][NextExtract]_vars

-----------------------------------------------------------------------------
(* Shorthands of the properties                                            *)

RunStarted == method = "run" /\ pc # "idle"

\* the validation of the entry point passed
Validated == method # "none" /\ Validate(params) = NoError

\* the budget the caller passed, when it is a positive number
PositiveBudget == params.maxToolIterations.t = "number" /\ params.maxToolIterations.v > 0

\* a response that asks for tools and lists some
AsksForTools(r) == NeedsToolExecution(r) /\ ~NoToolCalls(PendingToolCalls(r))

\* the response of iteration `iteration` is in, and the loop has dealt with it
Terminal == pc \in {"returned", "failed"}

\* the tool call has no callback in the registry of this run
Unregistered(toolCall) ==
    ~(toolCall.function.name \in DOMAIN toolCallbacks)

\* the resolver has gone through every tool call and every callback has settled
ResolverReturned == pc = "resolving" /\ idx = Len(toolCalls) /\ running = {}

\* the loop has just appended the messages of an Executing step
JustExtended ==
    \/ pc = "calling" /\ iteration >= 2
    \/ pc = "failed" /\ outcome.origin = "budget" /\ iteration >= 1

-----------------------------------------------------------------------------
(* C1: with a positive maxToolIterations, run() issues at most that many   *)
(* requests, and when the maxToolIterations-th response still asks for     *)
(* tools with a non-empty tool-call list, run() ends with the iteration-   *)
(* budget error naming the budget: it returns no response and sends no     *)
(* further request.                                                        *)
C1_BudgetErrorAfterLastIteration ==
    (RunStarted /\ Validated /\ PositiveBudget) =>
        /\ Len(requests) <= params.maxToolIterations.v
        /\ ( /\ Terminal
             /\ outcome.kind = "error" => outcome.origin # "transport"
             /\ Len(requests) = params.maxToolIterations.v
             /\ response # Undefined
             /\ AsksForTools(response) )
           => /\ pc = "failed"
              /\ outcome = Thrown(BudgetError(params.maxToolIterations.v), "budget")

(* C2: a response whose first choice did not finish with "tool_calls" and  *)
(* that does not flag requires_tool_execution ends run(): it is returned   *)
(* as it was received, no callback was called for it and no request was    *)
(* sent after it.                                                          *)
C2_PlainResponseReturned ==
    ( /\ RunStarted
      /\ response # Undefined
      /\ ~FinishedWithToolCalls(response)
      /\ ~Truthy(RequiresToolExecutionFlag(response)) )
    => /\ pc = "returned"
       /\ outcome = Returned(response)
       /\ Len(requests) = iteration
       /\ \A k \in 1..Len(invocations) : invocations[k].iteration < iteration
       /\ running = {}

C2_Witness ==
    /\ RunStarted
    /\ pc = "returned"
    /\ Len(requests) = 2
    /\ Len(invocations) >= 1
    /\ response = FinalResponse

(* C3: whatever a callback throws, the resolver catches it and turns it  *)
(* into the result {error: <message>}; run() does not fail because of it.  *)
C3_CallbackFailureAbsorbed ==
    RunStarted =>
        /\ pc = "failed" => outcome.origin # "resolver"
        /\ \A k \in 1..Len(results) :
              LET callback == LookupCallback(toolCallbacks, toolCalls[k])
              IN (Truthy(callback) /\ callback.behaviour.kind = "throw") =>
                    results[k].content =
                        Obj(<< <<"error", callback.behaviour.value.message>> >>)

(* C4: a tool call whose name has no callback gets the result              *)
(* {error: "No callback registered for tool: <name>"} under its own id,    *)
(* resolving it does not end the run, the resolver goes on to the next     *)
(* tool call, and the tool message sent for it carries that error as JSON  *)
(* text.                                                                   *)
C4_UnregisteredYieldsError ==
    RunStarted =>
        /\ \A k \in 1..idx :
              Unregistered(toolCalls[k]) =>
                 /\ k <= Len(results)
                 /\ results[k] =
                       [tool_call_id |-> toolCalls[k].id,
                        content |-> Obj(<< <<"error",
                            Str("No callback registered for tool: "
                                \o toolCalls[k].function.name)>> >>)]
        /\ (pc = "failed" /\ outcome.origin = "resolver") => ~Unregistered(toolCalls[idx])
        /\ (pc = "calling" /\ iteration >= 2) =>
              \A k \in 1..Len(toolCalls) :
                 Unregistered(toolCalls[k]) =>
                    currentMessages[Len(currentMessages) - Len(toolCalls) + k].content =
                       Str("{\"error\":\"No callback registered for tool: "
                           \o toolCalls[k].function.name \o "\"}")

C4_Witness ==
    /\ pc = "calling"
    /\ iteration = 2
    /\ Len(toolCalls) = 2
    /\ Unregistered(toolCalls[1])
    /\ ~Unregistered(toolCalls[2])
    /\ Len(invocations) = 1

C6_AssistantThenToolMessages ==
    (RunStarted /\ JustExtended) =>
        LET before == requests[iteration - (IF pc = "calling" THEN 1 ELSE 0)].messages.items
            n == Len(before)
        IN /\ Len(currentMessages) = n + 1 + Len(toolCalls)
           /\ \A k \in 1..n : currentMessages[k] = before[k]
           /\ currentMessages[n + 1].role = "assistant"
           /\ currentMessages[n + 1].tool_calls = response.choices[1].message.tool_calls
           /\ \A i \in 1..Len(toolCalls) :
                 /\ currentMessages[n + 1 + i].role = "tool"
                 /\ currentMessages[n + 1 + i].tool_call_id = toolCalls[i].id
           /\ pc = "calling" => requests[iteration].messages.items = currentMessages

\* calls [A, B] gave [assistant, tool(A), tool(B)]
C6_Witness ==
    /\ pc = "calling"
    /\ iteration = 2
    /\ Len(toolCalls) = 2
    /\ Len(currentMessages) = 4
    /\ currentMessages[3].tool_call_id = "call_1"
    /\ currentMessages[4].tool_call_id = "call_2"

(* C7: at most one callback is in progress at any time, the callbacks of   *)
(* one response are called in the order of its tool calls, and a callback  *)
(* is called only when every earlier tool call has its result.             *)
C7_CallbacksOneAtATime ==
    RunStarted =>
        /\ Cardinality(running) <= 1
        /\ \A i \in running : i = idx /\ Len(results) = i - 1
        /\ \A j, k \in 1..Len(invocations) :
              (j < k /\ invocations[j].iteration = invocations[k].iteration)
                 => invocations[j].call < invocations[k].call

\* the second callback of a response is in progress, the first has settled
C7_Witness ==
    /\ running = {2}
    /\ Len(invocations) = 2
    /\ Len(results) = 1

(* C8: the clean tool list of the callback registry has the length and     *)
(* order of the caller's tool list, no element of it has a callback field, *)
(* every other field is kept with its value, and the caller's list is as   *)
(* the caller passed it.                                                   *)
C8_CleanToolsSameShape ==
    (RunStarted /\ Validated) =>
        LET given == ToolsOrEmpty(params)
        IN /\ Len(tools) = Len(given)
           /\ \A i \in 1..Len(given) :
                 /\ ~("callback" \in DOMAIN tools[i])
                 /\ DOMAIN tools[i] = DOMAIN given[i] \ {"callback"}
                 /\ \A f \in DOMAIN tools[i] : tools[i][f] = given[i][f]
           /\ callerTools = params.tools

\* a tool with a callback before a tool without one
C8_Witness ==
    /\ RunStarted
    /\ Len(tools) = 2
    /\ "callback" \in DOMAIN params.tools.items[1]
    /\ ~("callback" \in DOMAIN params.tools.items[2])
    /\ tools[2] = HookTool

(* C9: no request of run() or execute() carries a tool definition with a   *)
(* callback field.                                                         *)
C9_NoCallbackTransmitted ==
    \A k \in 1..Len(requests) :
        "tools" \in DOMAIN requests[k] =>
            \A i \in 1..Len(requests[k].tools) :
                ~("callback" \in DOMAIN requests[k].tools[i])

\* execute() was given a tool with a callback and has sent its request
C9_WitnessExecute ==
    /\ method = "execute"
    /\ Len(requests) = 1
    /\ params.tools.t = "array"
    /\ "callback" \in DOMAIN params.tools.items[1]
    /\ "tools" \in DOMAIN requests[1]

\* run() was given a tool with a callback and has sent its second request
C9_Witness ==
    /\ method = "run"
    /\ Len(requests) = 2
    /\ params.tools.t = "array"
    /\ "callback" \in DOMAIN params.tools.items[1]
    /\ "tools" \in DOMAIN requests[2]

(* C10: run() and execute() with a missing or empty agentId, or with       *)
(* messages that is absent or not an array, fail with the validation error *)
(* that names the offending field; no request is sent and no callback is   *)
(* called.                                                                 *)
BadAgentId == params.agentId.t = "undefined" \/ params.agentId = Str("")
BadMessages == params.messages.t # "array"

C10_ValidationFailsLocally ==
    (method # "none" /\ (BadAgentId \/ BadMessages)) =>
        /\ pc = "failed"
        /\ outcome.kind = "error"
        /\ outcome.origin = "validation"
        /\ outcome.error.type = "InvalidRequestError"
        /\ outcome.error.param \in {"agentId", "messages"}
        /\ outcome.error.param = "agentId" =>
              (BadAgentId /\ outcome.error.message = "agentId is required")
        /\ outcome.error.param = "messages" =>
              (BadMessages /\ outcome.error.message = "messages array is required")
        /\ requests = <<>>
        /\ invocations = <<>>

\* a valid agentId with messages that is not an array
C10_Witness ==
    /\ pc = "failed"
    /\ params.agentId = Str("agent-1")
    /\ params.messages = Str("2+2?")
    /\ outcome.error.param = "messages"

-----------------------------------------------------------------------------
(* Claims about the responses run() and execute() read                     *)

\* the response signals tool execution: by its finish reason or by the flag
Signalled(r) ==
    \/ (HasFirstChoice(r) /\ Has(r.choices[1], "finish_reason")
        /\ r.choices[1].finish_reason = "tool_calls")
    \/ (Has(r, "agent_metadata") /\ Has(r.agent_metadata, "requires_tool_execution")
        /\ r.agent_metadata.requires_tool_execution = Bool(TRUE))

\* the response carries a tool-call list that is not empty
ListsToolCalls(r) ==
    /\ HasFirstChoice(r)
    /\ Has(r.choices[1], "message")
    /\ Has(r.choices[1].message, "tool_calls")
    /\ Len(r.choices[1].message.tool_calls) > 0

(* C15: execute() sends exactly one request once its params are valid and  *)
(* never more than one; the response it receives ends it and is returned   *)
(* as received, also when it asks for tools; no callback is ever called.   *)
C15_ExecuteSingleRoundTrip ==
    method = "execute" =>
        /\ Len(requests) <= 1
        /\ Validated => Len(requests) = 1
        /\ invocations = <<>>
        /\ running = {}
        /\ response # Undefined
           => /\ pc = "returned"
              /\ outcome = Returned(response)
        /\ pc = "returned" => response # Undefined

\* execute() returned a response asking for a tool the caller gave a callback for
C15_Witness ==
    /\ method = "execute"
    /\ pc = "returned"
    /\ Signalled(response)
    /\ ListsToolCalls(response)
    /\ response.choices[1].message.tool_calls[1].function.name = "calc"
    /\ params.tools.t = "array"
    /\ Has(params.tools.items[1], "callback")
    /\ outcome = Returned(response)

(* C16: in run(), a response that lists tool calls and signals tool        *)
(* execution by its finish reason or by the requires_tool_execution flag,  *)
(* either one alone, is never returned: its tool calls go to the resolver, *)
(* and the request sent after it carries their messages.                   *)
C16_EitherSignalTriggers ==
    ( /\ RunStarted
      /\ response # Undefined
      /\ Signalled(response)
      /\ ListsToolCalls(response) )
    => /\ pc # "returned"
       /\ outcome.kind # "response"
       /\ toolCalls = response.choices[1].message.tool_calls
       /\ pc = "calling"
          => /\ Len(requests) = iteration
             /\ Len(results) = Len(toolCalls)
             /\ Len(requests[iteration].messages.items)
                  = Len(requests[iteration - 1].messages.items) + 1 + Len(toolCalls)

\* finish reason "stop" with the flag set: the callback ran and run() resubmitted
C16_Witness ==
    /\ RunStarted
    /\ pc = "calling"
    /\ iteration = 2
    /\ response.choices[1].finish_reason = "stop"
    /\ Has(response, "agent_metadata")
    /\ Len(invocations) >= 1
    /\ Len(requests) = 2

(* C17: in run(), a response that signals tool execution and has no tool-  *)
(* call list, or an empty one, is returned as received: no error, no       *)
(* callback for it, no message appended, no request after it.              *)
C17_SignalWithoutCallsReturned ==
    ( /\ RunStarted
      /\ response # Undefined
      /\ Signalled(response)
      /\ ~ListsToolCalls(response) )
    => /\ pc = "returned"
       /\ outcome = Returned(response)
       /\ Len(requests) = iteration
       /\ currentMessages = requests[iteration].messages.items
       /\ \A k \in 1..Len(invocations) : invocations[k].iteration # iteration
       /\ running = {}

\* a response finished with "tool_calls" whose tool-call list is empty
C17_Witness ==
    /\ RunStarted
    /\ pc = "returned"
    /\ HasFirstChoice(response)
    /\ response.choices[1].finish_reason = "tool_calls"
    /\ Has(response.choices[1].message, "tool_calls")
    /\ response.choices[1].message.tool_calls = <<>>

\* the maximum the caller configured: maxToolIterations, 10 when absent
ConfiguredMaximum ==
    IF params.maxToolIterations.t = "number" THEN params.maxToolIterations.v ELSE 10

C19_ToolContentIsText ==
    RunStarted =>
        \A k \in 1..Len(currentMessages) :
            currentMessages[k].role = "tool" => currentMessages[k].content.t = "string"

(* C20: in the messages of every request run() sends, and in its current   *)
(* messages, each tool message names in tool_call_id a tool call listed by *)
(* an assistant message before it; the assistant message of the latest     *)
(* step carries the tool_calls of the response that triggered it, and the  *)
(* messages of a request are kept at the head of the next one.             *)
RefersBack(messages) ==
    \A j \in 1..Len(messages) :
        messages[j].role = "tool"
        => \E i \in 1..(j - 1) :
              /\ messages[i].role = "assistant"
              /\ \E c \in 1..Len(messages[i].tool_calls) :
                    messages[i].tool_calls[c].id = messages[j].tool_call_id

C20_ToolMessagesReferBack ==
    RunStarted =>
        /\ Validated => RefersBack(currentMessages)
        /\ \A k \in 1..Len(requests) : RefersBack(requests[k].messages.items)
        /\ \A k \in 2..Len(requests) :
              SubSeq(requests[k].messages.items, 1, Len(requests[k - 1].messages.items))
                 = requests[k - 1].messages.items
        /\ JustExtended
           => LET a == Len(currentMessages) - Len(toolCalls)
              IN /\ currentMessages[a].role = "assistant"
                 /\ currentMessages[a].tool_calls = response.choices[1].message.tool_calls
                 /\ Len(currentMessages[a].tool_calls) > 0

\* the third request of a run: two assistant messages, each followed by its tool message
C20_Witness ==
    /\ RunStarted
    /\ pc = "calling"
    /\ iteration = 3
    /\ Len(requests[3].messages.items) = 5
    /\ requests[3].messages.items[4].role = "assistant"
    /\ requests[3].messages.items[5].tool_call_id = "call_1"

-----------------------------------------------------------------------------
(* Claims about Agentlify.request(), checked under SpecRequest             *)

\* the errors of the attempts made so far, in order
FailedWith(k) == attempts[k].error

\* an authentication failure, or a client error with a status below 500
ClientFailure(e) ==
    e.type = "AuthenticationError" \/ (e.type = "APIError" /\ e.status < 500)

\* a server error (status 500 or more) or a failure without a response
RetryableFailure(e) ==
    e.type = "AgentlifyError" \/ (e.type = "APIError" /\ e.status >= 500)

AllAttemptsRetryable ==
    \A k \in 1..Len(attempts) :
        attempts[k].result = "error" /\ RetryableFailure(FailedWith(k))

(* C11: an attempt of request() that fails with an authentication failure  *)
(* or a client error of status below 500 is the last attempt of the call:  *)
(* no wait follows it, and request() throws that error.                    *)
C11_ClientFailureNotRetried ==
    \A k \in 1..Len(attempts) :
        (attempts[k].result = "error" /\ ClientFailure(FailedWith(k)))
        => /\ k = Len(attempts)
           /\ Len(delays) = k - 1
           /\ httpPc = "thrown"
           /\ requestOutcome = Thrown(FailedWith(k), "transport")

\* a client error ends a call that had waited once and had retries left
C11_Witness ==
    /\ httpPc = "thrown"
    /\ Len(attempts) = 2
    /\ maxRetries >= 3
    /\ FailedWith(2).type = "APIError"
    /\ FailedWith(2).status = 400
    /\ Len(delays) = 1

(* C12: request() never makes more than maxRetries + 1 attempts; when      *)
(* every attempt fails with a status of 500 or more or without a response, *)
(* it goes on until it has made exactly maxRetries + 1 attempts and then   *)
(* throws the error of the last one.                                       *)
C12_RetriesBounded ==
    /\ Len(attempts) <= maxRetries + 1
    /\ AllAttemptsRetryable
       => /\ Len(attempts) < maxRetries + 1 => httpPc \in {"ready", "attempting", "waiting"}
          /\ Len(attempts) = maxRetries + 1
             => /\ httpPc = "thrown"
                /\ requestOutcome = Thrown(FailedWith(Len(attempts)), "transport")
                /\ Len(delays) = maxRetries

\* a client of the largest maxRetries gives up after maxRetries + 1 failures
C12_Witness ==
    /\ httpPc = "thrown"
    /\ maxRetries >= MaxRetries
    /\ Len(attempts) = maxRetries + 1
    /\ AllAttemptsRetryable

(* C13: a rate-limit response (status 429) is retried: request() throws a  *)
(* RateLimitError only after maxRetries + 1 attempts.                      *)
C13_RateLimitRetried ==
    (httpPc = "thrown" /\ requestOutcome.error.type = "RateLimitError")
    => Len(attempts) = maxRetries + 1

(* C14: the k-th wait of a call (after the failed attempt k - 1) lasts     *)
(* min(1000 * 2^(k-1), 10000) milliseconds: the first is 1000, each is the *)
(* double of the one before or the ceiling, and none is above 10000.       *)
C14_BackoffDoublesToCap ==
    /\ \A k \in 1..Len(delays) :
          /\ delays[k] = (IF 1000 * 2^(k - 1) <= 10000 THEN 1000 * 2^(k - 1) ELSE 10000)
          /\ delays[k] <= BackoffCap
    /\ Len(delays) >= 1 => delays[1] = BackoffBase
    /\ \A k \in 2..Len(delays) :
          /\ delays[k] >= delays[k - 1]
          /\ delays[k] = 2 * delays[k - 1] \/ delays[k] = BackoffCap

\* the fifth wait is the first one the ceiling cuts
C14_Witness ==
    /\ Len(delays) >= 5
    /\ delays[4] = 8000
    /\ delays[5] = 10000

-----------------------------------------------------------------------------
(* Claims about the registry of a run and about what ends a run            *)

\* the positions of the caller's tool list that carry a callback for name
CallbackPositions(name) ==
    {i \in 1..Len(params.tools.items) :
        LET tool == params.tools.items[i]
        IN /\ Has(tool, "function") /\ Has(tool.function, "name")
           /\ tool.function.name = name
           /\ Has(tool, "callback") /\ tool.callback.t = "function"}

\* the callback of the last tool of the caller's list with that name
LastCallbackFor(name) ==
    LET at == CallbackPositions(name)
    IN params.tools.items[CHOOSE i \in at : \A j \in at : j <= i].callback

(* C21: when several tools of one call have the same function.name and a   *)
(* callback, the registry holds the callback of the last of them: a tool   *)
(* call of that name invokes that callback and no other, and the duplicate *)
(* raises no error (the validation passes and the run goes on).            *)
C21_LastRegistrationWins ==
    (RunStarted /\ Validated /\ params.tools.t = "array") =>
        /\ DOMAIN toolCallbacks = {name \in {"calc", "fail", "ghost", "hook"} :
                                      CallbackPositions(name) # {}}
        /\ \A name \in DOMAIN toolCallbacks : toolCallbacks[name] = LastCallbackFor(name)
        /\ \A k \in 1..Len(invocations) :
              invocations[k].iteration = iteration
              => invocations[k].callback
                   = LastCallbackFor(toolCalls[invocations[k].call].function.name).id
        /\ pc = "failed" => outcome.origin # "validation"

\* two callbacks for "calc": the second was invoked, and the run went on
C21_Witness ==
    /\ RunStarted
    /\ params.tools.t = "array"
    /\ Len(params.tools.items) = 2
    /\ CallbackPositions("calc") = {1, 2}
    /\ params.tools.items[1].callback # params.tools.items[2].callback
    /\ Len(invocations) = 1
    /\ invocations[1].callback = params.tools.items[2].callback.id
    /\ pc = "calling"
    /\ iteration = 2

-----------------------------------------------------------------------------
(* Claims about the message sequence of a run                              *)

(* C27: the first request of a run carries the caller's messages as they   *)
(* were passed, and the messages of every later request are those of the   *)
(* request before it, unchanged and in place, followed by at least one     *)
(* more message.                                                           *)
C27_MessagesAppendOnly ==
    (RunStarted /\ Validated) =>
        /\ Len(requests) >= 1 => requests[1].messages = params.messages
        /\ \A k \in 2..Len(requests) :
              LET earlier == requests[k - 1].messages.items
                  later == requests[k].messages.items
              IN /\ Len(later) > Len(earlier)
                 /\ \A j \in 1..Len(earlier) : later[j] = earlier[j]

\* a third request: one user message, then two rounds of assistant and tool message
C27_Witness ==
    /\ RunStarted
    /\ Len(requests) = 3
    /\ Len(requests[1].messages.items) = 1
    /\ Len(requests[2].messages.items) = 3
    /\ Len(requests[3].messages.items) = 5

(* C28: the caller's messages array is never modified by run() or by       *)
(* execute(): at every moment of a call, and when it has returned or       *)
(* failed, the array holds the elements it held when it was passed.        *)
C28_CallerMessagesUntouched ==
    method # "none" => callerMessages = params.messages

\* a run that failed after its message sequence had grown beyond the caller's
C28_Witness ==
    /\ RunStarted
    /\ pc = "failed"
    /\ outcome.origin = "budget"
    /\ callerMessages.t = "array"
    /\ Len(currentMessages) >= Len(callerMessages.items) + 2

-----------------------------------------------------------------------------
(* Claims about what ends a run, and about its budget                      *)

\* the invocations made for tool call i of the response of iteration it
InvocationsFor(it, i) ==
    {k \in 1..Len(invocations) : invocations[k].iteration = it /\ invocations[k].call = i}

\* run() is done with the response of the current iteration
ResponseDealtWith ==
    \/ pc = "calling" /\ iteration >= 2
    \/ pc = "failed" /\ outcome.origin \in {"budget", "resolver"} /\ response # Undefined

\* the iteration whose response the variable response holds
ResponseIteration == IF pc = "calling" THEN iteration - 1 ELSE iteration

(* C22: a request of run() that fails in the transport ends the run with   *)
(* that error: no callback is called for it and no request follows it; a   *)
(* failure of a tool never ends the run.                                   *)
C22_OnlyTransportFailuresEndRun ==
    RunStarted =>
        /\ (outcome.kind = "error" /\ outcome.origin = "transport")
           => /\ pc = "failed"
              /\ outcome.error \in TransportErrors
              /\ Len(requests) = iteration
              /\ InvocationsFor(iteration, 1) = {}
              /\ running = {}
        /\ pc = "failed" => outcome.origin \in {"validation", "budget", "transport"}

(* C23: when run() is done with a response that triggered tool execution,  *)
(* every tool call of it that has a registered callback was invoked        *)
(* exactly once, and run() resubmitted (or ran out of budget); a response  *)
(* run() returns is the last one it received.                              *)
C23_EachCallbackOnceThenResubmit ==
    RunStarted =>
        /\ ResponseDealtWith
           => /\ \A i \in 1..Len(toolCalls) :
                    Cardinality(InvocationsFor(ResponseIteration, i))
                       = (IF Unregistered(toolCalls[i]) THEN 0 ELSE 1)
              /\ pc = "failed" => outcome.origin = "budget"
        /\ pc = "returned" => outcome = Returned(response)

(* C24: the budget of run() is 10 when maxToolIterations is not given and  *)
(* is the given value otherwise.                                           *)
C24_BudgetIsGivenOrTen ==
    (RunStarted /\ Validated) =>
        maxIterations = (IF params.maxToolIterations = Undefined
                         THEN 10 ELSE params.maxToolIterations.v)

-----------------------------------------------------------------------------
(* Claims about the arguments a callback is called with (SpecArgs)         *)

\* the arguments field of the tool call an invocation was made for
GivenArguments(inv) ==
    LET f == toolCalls[inv.call].function
    IN IF "arguments" \in DOMAIN f THEN f.arguments ELSE Undefined

(* C25: a callback called for a tool call without arguments receives an    *)
(* empty object; for arguments given as JSON text it receives the value    *)
(* the text denotes, a structured value and not the text; for arguments    *)
(* given as a structured value it receives that value.                     *)
C25_ArgumentsResolvedOnce ==
    RunStarted =>
        \A k \in 1..Len(invocations) :
            invocations[k].iteration = ResponseIteration
            => LET given == GivenArguments(invocations[k])
                   passed == invocations[k].args
               IN /\ given = Undefined => passed = Obj(<<>>)
                  /\ given = Str("{\"x\":1}") => passed = Obj(<< <<"x", Num(1)>> >>)
                  /\ given.t = "string" => passed.t = "object"
                  /\ given.t = "object" => passed = given

\* one response with text arguments and structured arguments: both callbacks ran
C25_Witness ==
    /\ RunStarted
    /\ pc = "calling"
    /\ iteration = 2
    /\ Len(invocations) = 2
    /\ GivenArguments(invocations[1]).t = "string"
    /\ GivenArguments(invocations[2]).t = "object"
    /\ invocations[1].args = invocations[2].args

-----------------------------------------------------------------------------
(* Claims about the classification of HTTP failures (SpecRequest)          *)

ErrorClasses == {"AuthenticationError", "RateLimitError", "APIError", "AgentlifyError"}

(* C26: every failed attempt is classified by its response alone: status   *)
(* 401 gives an AuthenticationError, 429 a RateLimitError, any other       *)
(* status an APIError with that status and the body of the response, and a *)
(* failure without a response an AgentlifyError (the network error when    *)
(* the request was sent); what request() throws is one of these.           *)
C26_ClassificationTotal ==
    /\ \A k \in 1..Len(attempts) :
          attempts[k].result = "error"
          => LET failure == attempts[k].failure
                 error == attempts[k].error
             IN /\ error.type \in ErrorClasses
                /\ IF "response" \in DOMAIN failure
                   THEN LET status == failure.response.status
                        IN /\ error.type = "AuthenticationError" <=> status = 401
                           /\ error.type = "RateLimitError" <=> status = 429
                           /\ status \notin {401, 429}
                              => /\ error.type = "APIError"
                                 /\ error.status = status
                                 /\ error.response = failure.response.data
                   ELSE /\ error.type = "AgentlifyError"
                        /\ "request" \in DOMAIN failure
                           => error.message = "Network error: No response received"
    /\ httpPc = "thrown"
       => /\ requestOutcome.kind = "error"
          /\ requestOutcome.error.type \in ErrorClasses
          /\ requestOutcome.error = attempts[Len(attempts)].error

\* a call that met a 503, then no response, then a 429
C26_Witness ==
    /\ httpPc = "thrown"
    /\ Len(attempts) = 3
    /\ attempts[1].error.type = "APIError"
    /\ attempts[1].error.status = 503
    /\ attempts[2].error.type = "AgentlifyError"
    /\ attempts[3].error.type = "RateLimitError"

-----------------------------------------------------------------------------
(* Claims about interleaved invocations (SpecPair) and about the order of  *)
(* requests and callbacks (SpecLoop)                                       *)

\* the callback the invocation's caller gave for calc, if any
OwnCallback(l) ==
    IF l.params.tools = Undefined THEN Undefined ELSE l.params.tools.items[1].callback

\* the content of the tool message a call of calc gives with that callback
OwnToolText(cb) ==
    IF cb = Undefined THEN Str("{\"error\":\"No callback registered for tool: calc\"}")
    ELSE IF cb.id = "cbObject" THEN Str("{\"result\":4}")
    ELSE Str("sunny")

(* what an invocation of run() with locals l shows when it runs alone: its *)
(* registry, invocations, requests and messages come from its own params   *)
(* and from the responses it received                                      *)
OwnState(l) ==
    l.method = "run" =>
        LET cb == OwnCallback(l)
        IN /\ DOMAIN l.toolCallbacks = (IF cb = Undefined THEN {} ELSE {"calc"})
           /\ cb # Undefined => l.toolCallbacks["calc"] = cb
           /\ \A k \in 1..Len(l.invocations) :
                 /\ cb # Undefined
                 /\ l.invocations[k].callback = cb.id
                 /\ l.invocations[k].iteration = k
           /\ l.maxIterations = l.params.maxToolIterations.v
           /\ Len(l.requests) = l.iteration
           /\ l.iteration <= l.maxIterations
           /\ \A k \in 1..Len(l.requests) :
                 /\ l.requests[k].agentId = l.params.agentId
                 /\ Len(l.requests[k].messages.items)
                      = Len(l.params.messages.items) + 2 * (k - 1)
           /\ \A j \in 1..Len(l.currentMessages) :
                 l.currentMessages[j].role = "tool"
                 => l.currentMessages[j].content = OwnToolText(cb)
           /\ l.outcome.kind = "response" => l.outcome.value = l.response
           /\ l.callerMessages = l.params.messages

(* C29: with two invocations of run() interleaved on one client, each      *)
(* invocation's registry, callback invocations, requests, messages and     *)
(* outcome are those of its own params and responses, as when it runs      *)
(* alone, and no step of one invocation changes the locals of the other.   *)
C29_InvocationsIndependent ==
    /\ [](OwnState(Locals) /\ OwnState(other))
    /\ [][other' = other \/ (other' = Locals /\ Locals' = other)]_vars

\* both invocations are under way, with different callbacks for calc, each called once
C29_Witness ==
    /\ pc = "resolving"
    /\ running # {}
    /\ other.pc = "calling"
    /\ other.iteration = 2
    /\ Len(other.invocations) = 1
    /\ Len(invocations) = 1
    /\ invocations[1].callback # other.invocations[1].callback

(* C30: while a request of run() is outstanding, with its retries and      *)
(* waits, no callback is running and none has been called for its          *)
(* response; callbacks run only when request() has returned that response; *)
(* and a request is sent only when every tool call of the response before  *)
(* it has its result.                                                      *)
C30_RequestsAndCallbacksAlternate ==
    RunStarted =>
        /\ httpPc # "ready"
           => /\ pc = "calling"
              /\ running = {}
              /\ Len(requests) = iteration
              /\ \A k \in 1..Len(invocations) : invocations[k].iteration < iteration
        /\ running # {} => (pc = "resolving" /\ httpPc = "ready")
        /\ pc = "resolving"
           => /\ httpPc = "ready"
              /\ requestOutcome = Returned(response)
              /\ attempts[Len(attempts)].result = "ok"
        /\ (pc = "calling" /\ iteration >= 2)
           => /\ Len(results) = Len(toolCalls)
              /\ running = {}

\* the second request of a run is waiting to retry, after the callback of the first response
C30_Witness ==
    /\ RunStarted
    /\ pc = "calling"
    /\ iteration = 2
    /\ httpPc = "waiting"
    /\ Len(delays) = 2
    /\ Len(invocations) = 1

-----------------------------------------------------------------------------
(* Claims about the end of a call of request(), checked under SpecRequest  *)

\* request() has returned or thrown
RequestOver == httpPc \in {"returned", "thrown"}

(* C32: a successful attempt of request() is the last thing the call does: *)
(* request() returns the data of that attempt, there is no later attempt   *)
(* and no wait after it. When every attempt failed with a retryable error  *)
(* and request() has thrown, the error thrown is that of the final         *)
(* attempt. In both cases there is one wait between two attempts and none  *)
(* after the final attempt.                                                *)
C32_StopsAtFirstSuccess ==
    /\ \A k \in 1..Len(attempts) :
          attempts[k].result = "ok"
          => /\ k = Len(attempts)
             /\ httpPc = "returned"
             /\ requestOutcome = Returned(attempts[k].data)
             /\ Len(delays) = k - 1
    /\ (httpPc = "thrown" /\ AllAttemptsRetryable /\ Len(attempts) >= 1)
       => /\ requestOutcome = Thrown(FailedWith(Len(attempts)), "transport")
          /\ lastError = FailedWith(Len(attempts))
    /\ (RequestOver /\ Len(attempts) >= 1) => Len(delays) = Len(attempts) - 1
    /\ httpPc = "returned" => attempts[Len(attempts)].result = "ok"

\* the third attempt succeeds after two retryable failures and two waits
C32_Witness ==
    /\ httpPc = "returned"
    /\ Len(attempts) = 3
    /\ maxRetries >= 3
    /\ attempts[3].result = "ok"
    /\ requestOutcome = Returned(EmptyResponse)
    /\ delays = <<1000, 2000>>

\* every attempt failed with a retryable error, the last two with different ones
C32_WitnessFailure ==
    /\ httpPc = "thrown"
    /\ AllAttemptsRetryable
    /\ Len(attempts) = maxRetries + 1
    /\ Len(attempts) >= 2
    /\ FailedWith(Len(attempts)) # FailedWith(Len(attempts) - 1)
    /\ requestOutcome.error = FailedWith(Len(attempts))

-----------------------------------------------------------------------------
(* Claims about arguments that do not parse, checked under SpecArgs        *)

\* the tool call carries a non-empty arguments text that is not JSON
UnparsableArguments(toolCall) ==
    /\ "arguments" \in DOMAIN toolCall.function
    /\ toolCall.function.arguments.t = "string"
    /\ toolCall.function.arguments.v # ""
    /\ \A v \in ParsableValues : JSONText(v) # toolCall.function.arguments.v

\* a content of the form {error: <some text>}
ErrorContent(content) ==
    /\ content.t = "object"
    /\ Len(content.props) = 1
    /\ content.props[1][1] = "error"
    /\ content.props[1][2].t = "string"

(* C33: for a tool call that has a registered callback and whose arguments *)
(* are text that is not valid JSON, the callback is never invoked and the  *)
(* result of the call is {error: <message of the parse failure>}; the run  *)
(* does not fail for it: the resolver goes on to the remaining tool calls, *)
(* produces one result per call, and the loop sends the next request with  *)
(* the error as the text of the tool message (or, out of budget, throws    *)
(* the iteration-budget error).                                            *)
C33_UnparsableArgumentsAbsorbed ==
    (RunStarted /\ (pc = "resolving" \/ ResponseDealtWith)) =>
        \A i \in 1..Len(toolCalls) :
            (Truthy(LookupCallback(toolCallbacks, toolCalls[i]))
             /\ UnparsableArguments(toolCalls[i]))
            => /\ InvocationsFor(ResponseIteration, i) = {}
               /\ i \notin running
               /\ Len(results) >= i
                  => /\ results[i].tool_call_id = toolCalls[i].id
                     /\ ErrorContent(results[i].content)
                     /\ results[i].content = CaughtContent(JSONParse(toolCalls[i].function.arguments.v).error)
               /\ idx >= i => Len(results) + Cardinality(running) = idx
               /\ pc = "failed" => (outcome.origin = "budget" /\ iteration = maxIterations)
               /\ ResponseDealtWith
                  => /\ Len(results) = Len(toolCalls)
                     /\ pc = "calling"
                        => LET sent == requests[iteration].messages.items
                               at == Len(sent) - Len(toolCalls) + i
                           IN /\ Len(requests) = iteration
                              /\ sent[at].role = "tool"
                              /\ sent[at].tool_call_id = toolCalls[i].id
                              /\ sent[at].content = JSONStringify(results[i].content)

(* the first call of a response has text that does not parse, the second   *)
(* has arguments: only the second reached the callback, and the run went   *)
(* on to its second request                                                *)
C33_Witness ==
    /\ RunStarted
    /\ pc = "calling"
    /\ iteration = 2
    /\ Len(toolCalls) = 2
    /\ UnparsableArguments(toolCalls[1])
    /\ Truthy(LookupCallback(toolCallbacks, toolCalls[1]))
    /\ InvocationsFor(1, 1) = {}
    /\ InvocationsFor(1, 2) # {}
    /\ results[1].content = Obj(<< <<"error", Str("Unexpected token in JSON")>> >>)
    /\ requests[2].messages.items[3].content = Str("{\"error\":\"Unexpected token in JSON\"}")

-----------------------------------------------------------------------------
(* Claims about what becomes of the tool results, checked under Spec       *)

\* the text a settled callback contributes to the next request
SettledText(callback) ==
    LET b == callback.behaviour
        content == IF b.kind = "return" THEN b.value ELSE CaughtContent(b.value)
    IN IF IsString(content) THEN content ELSE JSONStringify(content)

C34_WitnessReturned ==
    /\ RunStarted
    /\ pc = "returned"
    /\ iteration = 2
    /\ Len(invocations) = 2
    /\ Len(requests) = 2

-----------------------------------------------------------------------------
(* Claims about the configured limits: the budget of run() under Spec, the *)
(* retries of request() under SpecRequest                                  *)

\* the caller passed a number as maxToolIterations
BudgetSupplied == params.maxToolIterations.t = "number"

(* C35: whatever number the caller passes as maxToolIterations, zero and   *)
(* negative numbers included, a run with valid agentId and messages that   *)
(* has failed with the iteration-budget error has sent at least one        *)
(* request, and the error names the number the caller passed.              *)
C35_BudgetErrorAfterARequest ==
    (RunStarted /\ Validated /\ BudgetSupplied
     /\ pc = "failed" /\ outcome.origin = "budget")
    => /\ Len(requests) >= 1
       /\ outcome.error = BudgetError(params.maxToolIterations.v)

(* C36: the attempts of request() follow the configured maxRetries: a      *)
(* client configured with 0 makes one attempt and never waits to retry, a  *)
(* client configured with n > 0 makes at most n + 1 attempts.              *)
C36_AttemptsFollowConfiguration ==
    /\ configured = Num(0) => (Len(attempts) <= 1 /\ Len(delays) = 0)
    /\ (configured.t = "number" /\ configured.v > 0)
       => Len(attempts) <= configured.v + 1

-----------------------------------------------------------------------------
(* Termination, checked under FairSpecLoop                                 *)

(* C31: every call of run() ends: once run() has been called it            *)
(* eventually has returned a response or failed with an error; and every   *)
(* call of request() ends: once it makes an attempt it eventually has      *)
(* returned data or thrown. No choice of responses and failures by the     *)
(* server keeps either loop going for ever.                                *)
C31_RunAndRequestTerminate ==
    /\ RunStarted ~> Terminal
    /\ (httpPc \in {"attempting", "waiting"}) ~> RequestOver

(* a run that ended in its second iteration, after a callback, with a      *)
(* second request that went through every retry and every wait             *)
C31_Witness ==
    /\ RunStarted
    /\ Terminal
    /\ iteration = 2
    /\ Len(invocations) >= 1
    /\ Len(attempts) = maxRetries + 1
    /\ Len(delays) = maxRetries
====
